---- MODULE Spec2Model ----
(***************************************************************************)
(* Outpost bulk ingest: the scanner (scanner.py), the job store (db.py)    *)
(* and the worker (worker.py) as a state machine.                          *)
(*                                                                         *)
(* A file name is the sequence of its characters, a path the sequence of   *)
(* its names, file content an abstract content identifier.  Every SQL      *)
(* statement of db.py commits on its own, so every step below is durable.  *)
(* Columns no modelled operation reads (updated_at, extracted_at,          *)
(* projects.name, projects.created_at) are left out of the rows.           *)
(***************************************************************************)
EXTENDS Integers, Sequences, FiniteSets, TLC

VARIABLES fs, jobs, zip_extractions, originals, artifacts, run,
          edits, edited, inserts, lastScan, claimedOnce, claimedTwice

vars == <<fs, jobs, zip_extractions, originals, artifacts, run,
          edits, edited, inserts, lastScan, claimedOnce, claimedTwice>>

(***************************************************************************)
(* Bounds of the model.                                                    *)
(***************************************************************************)
MaxTime == 1
MaxEdits == 2
MaxInserts == 1
MaxLimit == 2

Times == 0..MaxTime
Procs == {1, 2}
None == "None"

(***************************************************************************)
(* File names.                                                             *)
(***************************************************************************)
in_dir == <<"i", "n">>
sub_dir == <<"s", "u", "b">>
nested_dir == <<"n", "e", "s", "t", "e", "d">>
hid_dir == <<".", "g">>
a_pdf == <<"a", ".", "p", "d", "f">>
a_png == <<"a", ".", "p", "n", "g">>
b_PDF == <<"b", ".", "P", "D", "F">>
c_pdf == <<"c", ".", "p", "d", "f">>
d_pdf == <<"d", ".", "p", "d", "f">>
h_pdf == <<".", "h", ".", "p", "d", "f">>
n_txt == <<"n", ".", "t", "x", "t">>
z_zip == <<"z", ".", "z", "i", "p">>
y_ZIP == <<"y", ".", "Z", "I", "P">>
hz_zip == <<".", "z", ".", "z", "i", "p">>
doc_pdf == <<"d", "o", "c", ".", "p", "d", "f">>

\* str.lower() on the characters that occur in the names above
LowerChar(ch) ==
    CASE ch = "P" -> "p" [] ch = "D" -> "d" [] ch = "F" -> "f"
      [] ch = "Z" -> "z" [] ch = "I" -> "i" [] OTHER -> ch

Lower(s) == [i \in 1..Len(s) |-> LowerChar(s[i])]

\* str.rfind("."), 1-based, 0 when there is none
RFindDot(name) ==
    LET dots == {i \in 1..Len(name) : name[i] = "."}
    IN  IF dots = {} THEN 0 ELSE CHOOSE i \in dots : \A j \in dots : j <= i

\* PurePath.suffix: the last dot and what follows it, unless that dot is the
\* first or the last character of the name
Suffix(name) ==
    LET i == RFindDot(name)
    IN  IF 1 < i /\ i < Len(name) THEN SubSeq(name, i, Len(name)) ELSE <<>>

Name(path) == path[Len(path)]
Parent(path) == SubSeq(path, 1, Len(path) - 1)

\* the test for the name "." alone
_is_hidden_dot_only(path) == Name(path) = <<".">>

_is_hidden(path) == Len(Name(path)) > 0 /\ Name(path)[1] = "."

SUPPORTED_EXTENSIONS ==
    { <<".", "p", "d", "f">>, <<".", "t", "i", "f">>, <<".", "t", "i", "f", "f">>,
      <<".", "j", "p", "g">>, <<".", "j", "p", "e", "g">>, <<".", "p", "n", "g">> }

ZIP_SUFFIX == <<".", "z", "i", "p">>

(***************************************************************************)
(* File content.  0 is the empty file; 1..6 are document bytes; 10..14 are *)
(* the bytes of ZIP archives, described by ZipInfo; every other content is *)
(* not a ZIP archive.                                                      *)
(***************************************************************************)
EmptyData == 0

Member(path, data, crc_ok) == [path |-> path, data |-> data, crc_ok |-> crc_ok]

\* What zipfile.ZipFile(path) reads from the archive's bytes: valid says
\* whether the central directory can be read, members is the member list in
\* archive order, crc_ok whether the member's stored CRC matches its data.
ZipInfo(data) ==
    CASE data = 10 -> [valid |-> TRUE,
                       members |-> << Member(<<nested_dir, c_pdf>>, 3, TRUE),
                                      Member(<<c_pdf>>, 6, TRUE) >>]
      [] data = 11 -> [valid |-> TRUE,
                       members |-> << Member(<<d_pdf>>, 2, TRUE) >>]
      [] data = 13 -> [valid |-> TRUE,
                       members |-> << Member(<<c_pdf>>, 3, TRUE),
                                      Member(<<d_pdf>>, 4, FALSE) >>]
      [] data = 14 -> [valid |-> TRUE,
                       members |-> << Member(<<sub_dir, y_ZIP>>, 11, TRUE) >>]
      [] OTHER -> [valid |-> FALSE, members |-> << >>]

\* hashlib.sha256 over the whole file: one digest per content, no collisions
compute_sha256(f, path) == <<"sha256", f[path].data>>

(***************************************************************************)
(* The file system: a function from the paths that exist to their nodes.   *)
(***************************************************************************)
DirNode == [kind |-> "dir", data |-> EmptyData]
FileNode(data) == [kind |-> "file", data |-> data]

exists(f, path) == path \in DOMAIN f
is_dir(f, path) == path \in DOMAIN f /\ f[path].kind = "dir"

ProperPrefixes(path) == {SubSeq(path, 1, n) : n \in 1..(Len(path) - 1)}

\* Path.iterdir(): the entries of the directory when the listing is taken
iterdir(f, dir) ==
    {p \in DOMAIN f : Len(p) = Len(dir) + 1 /\ SubSeq(p, 1, Len(dir)) = dir}

\* open(path, "wb").write(data), the missing parent directories created first
WriteFile(f, path, data) ==
    [q \in DOMAIN f \cup ProperPrefixes(path) \cup {path} |->
        IF q = path THEN FileNode(data)
        ELSE IF q \in DOMAIN f THEN f[q] ELSE DirNode]

MkTree(files) ==
    LET paths == {e[1] : e \in files}
        dirs == UNION {ProperPrefixes(p) : p \in paths}
    IN  [q \in paths \cup dirs |->
            IF q \in paths
            THEN FileNode((CHOOSE e \in files : e[1] = q)[2])
            ELSE DirNode]

\* ZipFile.extractall(parent): the members are written in archive order; a
\* member whose CRC check fails has been created, empty, when BadZipFile is
\* raised, and the members before it stay extracted.
RECURSIVE ExtractMembers(_, _, _, _)
ExtractMembers(f, parent, members, i) ==
    IF i > Len(members) THEN [fs |-> f, ok |-> TRUE]
    ELSE LET m == members[i]
         IN  IF m.crc_ok
             THEN ExtractMembers(WriteFile(f, parent \o m.path, m.data),
                                 parent, members, i + 1)
             ELSE [fs |-> WriteFile(f, parent \o m.path, EmptyData), ok |-> FALSE]

\* with zipfile.ZipFile(zip_path) as archive: archive.extractall(parent)
extractall(f, zip_path) ==
    LET info == ZipInfo(f[zip_path].data)
    IN  IF info.valid
        THEN ExtractMembers(f, Parent(zip_path), info.members, 1)
        ELSE [fs |-> f, ok |-> FALSE]

(***************************************************************************)
(* The projects table.  No modelled operation inserts or deletes projects. *)
(* Project 3's input root does not exist; no project has id 9.  SQLite     *)
(* does not enforce the jobs.project_id foreign key (PRAGMA foreign_keys   *)
(* is never set), so a job row may name a project that does not exist.     *)
(***************************************************************************)
Project(id, input_path) ==
    [id |-> id, input_path |-> input_path,
     root_path |-> <<"data", "projects", id>>]

projects ==
    { Project(1, <<in_dir>>), Project(2, <<in_dir, sub_dir>>),
      Project(3, <<in_dir, n_txt>>) }

ProjectIds == {1, 2, 3, 9}

\* the row of a SELECT that matched nothing
NoRow == [id |-> 0]

\* the SELECT without its WHERE id = ? condition: the first row
get_project_first_row(project_id) ==
    CHOOSE pr \in projects : \A other \in projects : pr.id <= other.id

get_project(project_id) ==
    IF \E pr \in projects : pr.id = project_id
    THEN CHOOSE pr \in projects : pr.id = project_id
    ELSE NoRow

(***************************************************************************)
(* db.py: the jobs and zip_extractions tables.                             *)
(***************************************************************************)
JobRow(id, project_id, relpath, fullpath, created_at, hash, ext) ==
    [id |-> id, project_id |-> project_id, original_relpath |-> relpath,
     original_fullpath |-> fullpath, status |-> "pending",
     error_message |-> None, created_at |-> created_at, hash |-> hash,
     num_pages |-> None, file_extension |-> ext]

\* the lookup without its project_id condition
job_exists_any_project(js, project_id, file_hash) ==
    \E i \in 1..Len(js) : js[i].hash = file_hash

job_exists(js, project_id, file_hash) ==
    \E i \in 1..Len(js) : js[i].project_id = project_id /\ js[i].hash = file_hash

\* the jobs table without its UNIQUE(project_id, hash) constraint
insert_job_no_unique(js, project_id, relpath, fullpath, file_hash, ext, at) ==
    [jobs |-> Append(js, JobRow(Len(js) + 1, project_id, relpath, fullpath,
                                at, file_hash, ext)),
     raised |-> None, id |-> Len(js) + 1]

\* INSERT INTO jobs: UNIQUE(project_id, hash) raises IntegrityError, else the
\* row gets the next AUTOINCREMENT id and status pending
insert_job(js, project_id, relpath, fullpath, file_hash, ext, at) ==
    IF \E i \in 1..Len(js) : js[i].project_id = project_id /\ js[i].hash = file_hash
    THEN [jobs |-> js, raised |-> "IntegrityError", id |-> 0]
    ELSE [jobs |-> Append(js, JobRow(Len(js) + 1, project_id, relpath, fullpath,
                                      at, file_hash, ext)),
          raised |-> None, id |-> Len(js) + 1]

\* CURRENT_TIMESTAMP of a new row: never before the newest row's
LastCreated(js) == IF js = << >> THEN 0 ELSE js[Len(js)].created_at
Clock(js) == {t \in Times : t >= LastCreated(js)}

\* the lookup without its zip_hash condition
zip_already_extracted_any_digest(recs, project_id, zip_path, zip_hash) ==
    \E rec \in recs : rec.project_id = project_id /\ rec.zip_path = zip_path

\* the lookup with the digest of the empty file bound in place of zip_hash
zip_already_extracted_stale_hash(recs, project_id, zip_path, zip_hash) ==
    [project_id |-> project_id, zip_path |-> zip_path,
     zip_hash |-> <<"sha256", EmptyData>>] \in recs

zip_already_extracted(recs, project_id, zip_path, zip_hash) ==
    [project_id |-> project_id, zip_path |-> zip_path, zip_hash |-> zip_hash] \in recs

\* the INSERT never committed: the row is lost
record_zip_extraction_dropped(recs, project_id, zip_path, zip_hash) == recs

\* INSERT OR IGNORE under UNIQUE(project_id, zip_path, zip_hash)
record_zip_extraction(recs, project_id, zip_path, zip_hash) ==
    recs \cup {[project_id |-> project_id, zip_path |-> zip_path, zip_hash |-> zip_hash]}

\* the rows a query with the optional WHERE project_id = ? ranges over;
\* project_id = None, the condition left out, is 0: no row has id 0
RowsOf(js, project_id) ==
    {i \in 1..Len(js) : project_id = 0 \/ js[i].project_id = project_id}

\* the GROUP BY status without the project condition
count_jobs_by_status_no_filter(js, project_id) ==
    [s \in {js[i].status : i \in 1..Len(js)} |->
        Cardinality({i \in 1..Len(js) : js[i].status = s})]

\* SELECT status, COUNT(*) ... GROUP BY status, as a dict
count_jobs_by_status(js, project_id) ==
    LET rows == RowsOf(js, project_id)
    IN  [s \in {js[i].status : i \in rows} |->
            Cardinality({i \in rows : js[i].status = s})]

\* SELECT file_extension, COUNT(*) ... GROUP BY file_extension, as a dict
count_jobs_by_extension(js, project_id) ==
    LET rows == RowsOf(js, project_id)
    IN  [e \in {js[i].file_extension : i \in rows} |->
            Cardinality({i \in rows : js[i].file_extension = e})]

\* SELECT COUNT(*)
total_jobs(js, project_id) == Cardinality(RowsOf(js, project_id))

(***************************************************************************)
(* scanner.py                                                              *)
(***************************************************************************)
\* the function without its return True
extract_zip_if_needed_returns_false(f, recs, project, zip_path) ==
    LET zip_hash == compute_sha256(f, zip_path)
        res == extractall(f, zip_path)
    IN  IF zip_already_extracted(recs, project.id, zip_path, zip_hash)
        THEN [fs |-> f, zip_extractions |-> recs, extracted_now |-> FALSE]
        ELSE IF res.ok
        THEN [fs |-> res.fs,
              zip_extractions |-> record_zip_extraction(recs, project.id, zip_path, zip_hash),
              extracted_now |-> FALSE]
        ELSE [fs |-> res.fs, zip_extractions |-> recs, extracted_now |-> FALSE]

\* the extraction recorded before the archive is opened
extract_zip_if_needed_record_first(f, recs, project, zip_path) ==
    LET zip_hash == compute_sha256(f, zip_path)
        res == extractall(f, zip_path)
    IN  IF zip_already_extracted(recs, project.id, zip_path, zip_hash)
        THEN [fs |-> f, zip_extractions |-> recs, extracted_now |-> FALSE]
        ELSE [fs |-> res.fs,
              zip_extractions |-> record_zip_extraction(recs, project.id, zip_path, zip_hash),
              extracted_now |-> res.ok]

\* extract_zip_if_needed: the file system and the extraction records it
\* leaves, and whether it extracted now
extract_zip_if_needed(f, recs, project, zip_path) ==
    LET zip_hash == compute_sha256(f, zip_path)
        res == extractall(f, zip_path)
    IN  IF zip_already_extracted(recs, project.id, zip_path, zip_hash)
        THEN [fs |-> f, zip_extractions |-> recs, extracted_now |-> FALSE]
        ELSE IF res.ok
        THEN [fs |-> res.fs,
              zip_extractions |-> record_zip_extraction(recs, project.id, zip_path, zip_hash),
              extracted_now |-> TRUE]
        ELSE [fs |-> res.fs, zip_extractions |-> recs, extracted_now |-> FALSE]

\* shutil.copy2(entry, originals_dir / dest_name): an existing copy of that
\* name is overwritten
copy2(origs, project_id, dest_name, data) ==
    {o \in origs : ~(o.project_id = project_id /\ o.name = dest_name)}
        \cup {[project_id |-> project_id, name |-> dest_name, data |-> data]}

Idle == [op |-> "idle"]
AllIdle == \A p \in Procs : run[p].op = "idle"

\* the summary that starts with one job counted
ZeroScan_one_counted == [new_jobs |-> 1, skipped_existing |-> 0, zip_extracted |-> 0]

ZeroScan == [new_jobs |-> 0, skipped_existing |-> 0, zip_extracted |-> 0]

Raised(op, exc) == [op |-> op, pc |-> "raised", exc |-> exc]

\* the loop position after the entry just handled: the next entry of the
\* listing, or the head of the while loop when the listing is used up
AfterEntry(rest) == IF rest = {} THEN "loop" ELSE "entries"

\* the call ends with an exception before its loop: what it was called with
\* and what the store held
RaisedAtStart(project_id, exc) ==
    Raised("scan", exc) @@
    [project_id |-> project_id, jobs0 |-> Len(jobs), recs0 |-> zip_extractions]

\* scan_project, lines 52-65: the project and input root checks, the
\* originals directory, the summary and the queue
ScanStart(p, project_id) ==
    /\ run[p].op = "idle"
    /\ LET project == get_project(project_id)
           proceeds == /\ project # NoRow
                       /\ exists(fs, project.input_path)
                       /\ is_dir(fs, project.input_path)
       IN  /\ run' = [run EXCEPT ![p] =
                IF project = NoRow THEN RaisedAtStart(project_id, "ValueError")
                ELSE IF ~proceeds THEN RaisedAtStart(project_id, "FileNotFoundError")
                ELSE [op |-> "scan", pc |-> "loop", project |-> project,
                      project_id |-> project_id,
                      queue |-> <<project.input_path>>, entries |-> {},
                      entry |-> << >>, file_hash |-> << >>,
                      summary |-> ZeroScan, last |-> None,
                      repeat |-> (lastScan = project_id),
                      replaced |-> edited,
                      jobs0 |-> Len(jobs), recs0 |-> zip_extractions]]
           /\ edited' = IF proceeds THEN {} ELSE edited
    /\ lastScan' = 0
    /\ UNCHANGED <<fs, jobs, zip_extractions, originals, artifacts, edits,
                   inserts, claimedOnce, claimedTwice>>

\* lines 66-71: while queue / popleft / is_dir / the listing of the directory;
\* an empty queue ends the loop and the summary is returned
ScanPopDir(p) ==
    /\ run[p].op = "scan" /\ run[p].pc = "loop"
    /\ LET r == run[p]
           current_dir == Head(r.queue)
       IN  run' = [run EXCEPT ![p] =
               IF r.queue = << >> THEN [r EXCEPT !.pc = "done"]
               ELSE IF ~is_dir(fs, current_dir)
               THEN [r EXCEPT !.queue = Tail(r.queue)]
               ELSE [r EXCEPT !.queue = Tail(r.queue),
                              !.entries = iterdir(fs, current_dir),
                              !.pc = AfterEntry(iterdir(fs, current_dir))]]
    /\ UNCHANGED <<fs, jobs, zip_extractions, originals, artifacts, edits, edited,
                   inserts, lastScan, claimedOnce, claimedTwice>>

\* lines 72-91 for one entry of the listing, taken in any order: hidden,
\* directory, archive, supported file up to the job_exists test, other
ScanEntry(p) ==
    /\ run[p].op = "scan" /\ run[p].pc = "entries"
    /\ \E entry \in run[p].entries :
        LET r == run[p]
            rest == r.entries \ {entry}
            suffix == Lower(Suffix(Name(entry)))
            next == [r EXCEPT !.entries = rest, !.pc = AfterEntry(rest),
                              !.entry = entry]
        IN  IF _is_hidden(entry)
            THEN /\ run' = [run EXCEPT ![p] = [next EXCEPT !.last = "hidden"]]
                 /\ UNCHANGED <<fs, zip_extractions>>
            ELSE IF is_dir(fs, entry)
            THEN /\ run' = [run EXCEPT ![p] =
                        [next EXCEPT !.queue = Append(r.queue, entry), !.last = "dir"]]
                 /\ UNCHANGED <<fs, zip_extractions>>
            ELSE IF suffix = ZIP_SUFFIX
            THEN LET x == extract_zip_if_needed(fs, zip_extractions, r.project, entry)
                 IN  /\ fs' = x.fs
                     /\ zip_extractions' = x.zip_extractions
                     /\ run' = [run EXCEPT ![p] =
                            IF x.extracted_now
                            THEN [next EXCEPT
                                    !.summary.zip_extracted = r.summary.zip_extracted + 1,
                                    !.queue = Append(r.queue, Parent(entry)),
                                    !.last = "extracted"]
                            ELSE [next EXCEPT !.last = "zip"]]
            ELSE IF suffix \in SUPPORTED_EXTENSIONS
            THEN LET file_hash == compute_sha256(fs, entry)
                 IN  /\ run' = [run EXCEPT ![p] =
                            IF job_exists(jobs, r.project.id, file_hash)
                            THEN [next EXCEPT
                                    !.summary.skipped_existing = r.summary.skipped_existing + 1,
                                    !.file_hash = file_hash, !.last = "skipped"]
                            ELSE [next EXCEPT !.pc = "insert", !.file_hash = file_hash,
                                              !.last = "new"]]
                     /\ UNCHANGED <<fs, zip_extractions>>
            ELSE /\ run' = [run EXCEPT ![p] = [next EXCEPT !.last = "other"]]
                 /\ UNCHANGED <<fs, zip_extractions>>
    /\ UNCHANGED <<jobs, originals, artifacts, edits, edited, inserts, lastScan,
                   claimedOnce, claimedTwice>>

\* the canonical name without the digest in it
DestName_no_digest(file_hash, name) == <<<<"sha256", EmptyData>>, name>>

\* dest_name = f"{file_hash}_{entry.name}"
DestName(file_hash, name) == <<file_hash, name>>

\* lines 93-107: the canonical copy, then insert_job and new_jobs; an
\* IntegrityError of insert_job is not caught and ends the scan
ScanInsert(p) ==
    /\ run[p].op = "scan" /\ run[p].pc = "insert"
    /\ \E at \in Clock(jobs) :
        LET r == run[p]
            dest_name == DestName(r.file_hash, Name(r.entry))
            dest_path == [project_id |-> r.project.id, name |-> dest_name]
            ins == insert_job(jobs, r.project.id, dest_name, dest_path, r.file_hash,
                              Lower(Suffix(Name(r.entry))), at)
        IN  /\ originals' = copy2(originals, r.project.id, dest_name, fs[r.entry].data)
            /\ jobs' = ins.jobs
            /\ run' = [run EXCEPT ![p] =
                   IF ins.raised # None
                   THEN Raised("scan", ins.raised) @@
                        [project_id |-> r.project_id,
                         jobs0 |-> r.jobs0, recs0 |-> r.recs0]
                   ELSE [r EXCEPT !.summary.new_jobs = r.summary.new_jobs + 1,
                                  !.pc = AfterEntry(r.entries), !.last = "inserted"]]
    /\ UNCHANGED <<fs, zip_extractions, artifacts, edits, edited, inserts, lastScan,
                   claimedOnce, claimedTwice>>

\* open() in compute_sha256, or shutil.copy2, raises OSError: nothing in
\* scan_project catches it and the call ends there; a copy that fails may
\* have created its destination, empty
ScanFault(p) ==
    /\ run[p].op = "scan"
    /\ LET r == run[p]
           raised == Raised("scan", "OSError") @@
                     [project_id |-> r.project_id, jobs0 |-> r.jobs0, recs0 |-> r.recs0]
       IN  \/ /\ r.pc = "entries"
              /\ \E entry \in r.entries :
                    /\ ~_is_hidden(entry)
                    /\ ~is_dir(fs, entry)
                    /\ Lower(Suffix(Name(entry))) \in SUPPORTED_EXTENSIONS \cup {ZIP_SUFFIX}
              /\ run' = [run EXCEPT ![p] = raised]
              /\ originals' = originals
           \/ /\ r.pc = "insert"
              /\ run' = [run EXCEPT ![p] = raised]
              /\ originals' \in
                    { originals,
                      copy2(originals, r.project.id, DestName(r.file_hash, Name(r.entry)), EmptyData) }
    /\ UNCHANGED <<fs, jobs, zip_extractions, artifacts, edits, edited, inserts,
                   lastScan, claimedOnce, claimedTwice>>

(***************************************************************************)
(* worker.py and ocr.py                                                    *)
(***************************************************************************)
\* SELECT * FROM jobs WHERE status = 'pending' [AND project_id = ?]
\* ORDER BY created_at ASC, id ASC LIMIT ?
\* project_id = None, the filter left out: no row has id 0
AllProjects == 0

\* the fetch without its project_id condition
Eligible_no_project(js, project_id) ==
    {i \in 1..Len(js) : js[i].status = "pending"}

\* the fetch without its status = 'pending' condition
Eligible_any_status(js, project_id) ==
    {i \in 1..Len(js) : project_id = AllProjects \/ js[i].project_id = project_id}

Eligible(js, project_id) ==
    {i \in 1..Len(js) : /\ js[i].status = "pending"
                        /\ (project_id = AllProjects \/ js[i].project_id = project_id)}

Before(js, i, j) ==
    \/ js[i].created_at < js[j].created_at
    \/ js[i].created_at = js[j].created_at /\ i < j

RECURSIVE Ordered(_, _)
Ordered(js, ids) ==
    IF ids = {} THEN << >>
    ELSE LET first == CHOOSE i \in ids : \A j \in ids \ {i} : Before(js, i, j)
         IN  <<js[first]>> \o Ordered(js, ids \ {first})

Take(seq, n) == SubSeq(seq, 1, IF n < Len(seq) THEN n ELSE Len(seq))

\* ORDER BY created_at DESC, id DESC
fetch_newest_first(js, limit, project_id) ==
    LET asc == Ordered(js, Eligible(js, project_id))
    IN  Take([k \in 1..Len(asc) |-> asc[Len(asc) + 1 - k]], limit)

fetch_pending_jobs(js, limit, project_id) ==
    Take(Ordered(js, Eligible(js, project_id)), limit)

\* the UPDATE without its WHERE clause
set_job_status_no_where(js, job_id, status, error_message) ==
    [i \in 1..Len(js) |->
        [js[i] EXCEPT !.status = status, !.error_message = error_message]]

\* the UPDATE that leaves error_message out
set_job_status_no_message(js, job_id, status, error_message) ==
    [i \in 1..Len(js) |->
        IF js[i].id = job_id THEN [js[i] EXCEPT !.status = status] ELSE js[i]]

\* UPDATE jobs SET status = ?, error_message = ? WHERE id = ?
set_job_status(js, job_id, status, error_message) ==
    [i \in 1..Len(js) |->
        IF js[i].id = job_id
        THEN [js[i] EXCEPT !.status = status, !.error_message = error_message]
        ELSE js[i]]

\* _get_project_cache: the projects of the fetched jobs that get_project finds
_get_project_cache(fetched) ==
    {get_project(fetched[i].project_id) : i \in 1..Len(fetched)} \ {NoRow}

\* project_cache.get with a default row for a missing project
ProjectOf_default(cache, job) ==
    IF \E pr \in cache : pr.id = job.project_id
    THEN CHOOSE pr \in cache : pr.id = job.project_id
    ELSE [id |-> job.project_id]

\* project_cache.get(job.project_id), line 38
ProjectOf(cache, job) ==
    IF \E pr \in cache : pr.id = job.project_id
    THEN CHOOSE pr \in cache : pr.id = job.project_id
    ELSE NoRow

\* the names the module ocr defines; worker.py line 45 looks up perform_ocr
OcrModule == {"run_ocr", "_ocr_image", "_ocr_pdf", "_page_sort_key",
              "IMAGE_EXTENSIONS", "logger"}

AttributeErrorMessage == "module 'outpost_bulkingest.ocr' has no attribute 'perform_ocr'"

\* the outcomes of lines 45-51: the attribute lookup fails, or the call
\* returns a result and the artifact is written, or one of the two raises
OcrOutcomes ==
    IF "perform_ocr" \in OcrModule
    THEN {[ok |-> TRUE, message |-> ""], [ok |-> FALSE, message |-> "OCR error"]}
    ELSE {[ok |-> FALSE, message |-> AttributeErrorMessage]}

ZeroWork == [processed |-> 0, succeeded |-> 0, failed |-> 0]

\* processed counted after the artifact write instead of in finally
Tally_on_success(summary, ok) ==
    [processed |-> summary.processed + (IF ok THEN 1 ELSE 0),
     succeeded |-> summary.succeeded + (IF ok THEN 1 ELSE 0),
     failed |-> summary.failed + (IF ok THEN 0 ELSE 1)]

\* lines 54, 58 and 60: succeeded or failed, and processed in the finally clause
Tally(summary, ok) ==
    [processed |-> summary.processed + 1,
     succeeded |-> summary.succeeded + (IF ok THEN 1 ELSE 0),
     failed |-> summary.failed + (IF ok THEN 0 ELSE 1)]

\* process_jobs, lines 29-35: the fetch, the summary, the early return, the
\* project cache
WorkStart(p, project_id, limit) ==
    /\ run[p].op = "idle"
    /\ LET fetched == fetch_pending_jobs(jobs, limit, project_id)
       IN  run' = [run EXCEPT ![p] =
              [op |-> "work", pc |-> IF fetched = << >> THEN "done" ELSE "loop",
               project_id |-> project_id, limit |-> limit, jobs |-> fetched,
               project_cache |-> _get_project_cache(fetched), idx |-> 1,
               summary |-> ZeroWork, skipped |-> {}, eligible0 |-> Eligible(jobs, project_id),
               jobs0 |-> jobs]]
    /\ lastScan' = 0
    /\ UNCHANGED <<fs, jobs, zip_extractions, originals, artifacts, edits, edited,
                   inserts, claimedOnce, claimedTwice>>

\* lines 37-44: the next fetched job; skipped when its project is not in the
\* cache, else moved to in_progress
WorkNext(p) ==
    /\ run[p].op = "work" /\ run[p].pc = "loop"
    /\ LET r == run[p]
           job == r.jobs[r.idx]
       IN  IF r.idx > Len(r.jobs)
           THEN /\ run' = [run EXCEPT ![p] = [r EXCEPT !.pc = "done"]]
                /\ UNCHANGED <<jobs, claimedOnce, claimedTwice>>
           ELSE IF ProjectOf(r.project_cache, job) = NoRow
           THEN /\ run' = [run EXCEPT ![p] =
                       [r EXCEPT !.idx = r.idx + 1, !.skipped = r.skipped \cup {job.id}]]
                /\ UNCHANGED <<jobs, claimedOnce, claimedTwice>>
           ELSE /\ jobs' = set_job_status(jobs, job.id, "in_progress", None)
                /\ run' = [run EXCEPT ![p] = [r EXCEPT !.pc = "ocr"]]
                /\ claimedOnce' = claimedOnce \cup {job.id}
                /\ claimedTwice' = claimedTwice \cup ({job.id} \cap claimedOnce)
    /\ UNCHANGED <<fs, zip_extractions, originals, artifacts, edits, edited, inserts, lastScan>>

\* lines 45-60: perform_ocr and the artifact, then done and succeeded, or
\* failed with str(exc) and failed; processed in the finally clause
WorkOcr(p) ==
    /\ run[p].op = "work" /\ run[p].pc = "ocr"
    /\ \E out \in OcrOutcomes :
        LET r == run[p]
            job == r.jobs[r.idx]
            project == ProjectOf(r.project_cache, job)
        IN  IF out.ok
            THEN /\ artifacts' = artifacts \cup {[root_path |-> project.root_path, job_id |-> job.id]}
                 /\ jobs' = set_job_status(jobs, job.id, "done", None)
                 /\ run' = [run EXCEPT ![p] =
                        [r EXCEPT !.summary = Tally(r.summary, TRUE),
                                  !.idx = r.idx + 1, !.pc = "loop"]]
            ELSE /\ artifacts' = artifacts
                 /\ jobs' = set_job_status(jobs, job.id, "failed", out.message)
                 /\ run' = [run EXCEPT ![p] =
                        [r EXCEPT !.summary = Tally(r.summary, FALSE),
                                  !.idx = r.idx + 1, !.pc = "loop"]]
    /\ UNCHANGED <<fs, zip_extractions, originals, edits, edited, inserts, lastScan,
                   claimedOnce, claimedTwice>>

\* the call returns its summary, or its exception, to the caller
Return(p) ==
    /\ run[p].op # "idle" /\ run[p].pc \in {"done", "raised"}
    /\ run' = [run EXCEPT ![p] = Idle]
    /\ lastScan' = IF run[p].op = "scan" /\ run[p].pc = "done"
                   THEN run[p].project.id ELSE 0
    /\ UNCHANGED <<fs, jobs, zip_extractions, originals, artifacts, edits, edited,
                   inserts, claimedOnce, claimedTwice>>

(***************************************************************************)
(* Callers of the library outside scanner.py and worker.py.                *)
(***************************************************************************)
\* db.insert_job called directly, as the tests do: the call returns the new
\* row's id or ends with the IntegrityError of the INSERT
InsertJob(p, project_id, data) ==
    /\ run[p].op = "idle"
    /\ inserts < MaxInserts
    /\ \E at \in Clock(jobs) :
        LET file_hash == <<"sha256", data>>
            ins == insert_job(jobs, project_id, doc_pdf,
                              [project_id |-> project_id, name |-> doc_pdf],
                              file_hash, Suffix(doc_pdf), at)
        IN  /\ jobs' = ins.jobs
            /\ run' = [run EXCEPT ![p] =
                   [op |-> "insert", pc |-> IF ins.raised # None THEN "raised" ELSE "done",
                    exc |-> ins.raised, project_id |-> project_id,
                    file_hash |-> file_hash, jobs0 |-> jobs]]
    /\ inserts' = inserts + 1
    /\ lastScan' = 0
    /\ UNCHANGED <<fs, zip_extractions, originals, artifacts, edits, edited,
                   claimedOnce, claimedTwice>>

\* the input tree is changed between two operations: a file is added or
\* replaced
EditChoices ==
    { <<<<in_dir, z_zip>>, 11>>, <<<<in_dir, z_zip>>, 10>>, <<<<in_dir, d_pdf>>, 1>> }

\* edited keeps, for every file replaced since the last scan began, the
\* content it had then
EditFs ==
    /\ AllIdle
    /\ edits < MaxEdits
    /\ \E e \in EditChoices :
        /\ is_dir(fs, Parent(e[1]))
        /\ ~is_dir(fs, e[1])
        /\ fs' = WriteFile(fs, e[1], e[2])
        /\ fs' # fs
        /\ edited' = IF exists(fs, e[1]) /\ ~(\E x \in edited : x[1] = e[1])
                     THEN edited \cup {<<e[1], fs[e[1]].data>>}
                     ELSE edited
    /\ edits' = edits + 1
    /\ lastScan' = 0
    /\ UNCHANGED <<jobs, zip_extractions, originals, artifacts, run, inserts,
                   claimedOnce, claimedTwice>>

(***************************************************************************)
(* The input trees the model starts from.                                  *)
(***************************************************************************)
InitTrees ==
    { MkTree({ <<<<in_dir, b_PDF>>, 1>>, <<<<in_dir, z_zip>>, 10>> }),
      MkTree({ <<<<in_dir, a_pdf>>, 1>>, <<<<in_dir, sub_dir, c_pdf>>, 1>>,
               <<<<in_dir, h_pdf>>, 2>>, <<<<in_dir, hid_dir, d_pdf>>, 3>>,
               <<<<in_dir, n_txt>>, 4>>, <<<<in_dir, y_ZIP>>, 5>>,
               <<<<in_dir, sub_dir, hz_zip>>, 11>> }),
      MkTree({ <<<<in_dir, a_png>>, 1>>, <<<<in_dir, z_zip>>, 13>> }),
      MkTree({ <<<<in_dir, z_zip>>, 14>>, <<<<in_dir, sub_dir, c_pdf>>, 2>> }) }

Init ==
    /\ fs \in InitTrees
    /\ jobs = << >>
    /\ zip_extractions = {}
    /\ originals = {}
    /\ artifacts = {}
    /\ run = [p \in Procs |-> Idle]
    /\ edits = 0
    /\ edited = {}
    /\ inserts = 0
    /\ lastScan = 0
    /\ claimedOnce = {}
    /\ claimedTwice = {}

Filters == {AllProjects, 1}
Limits == 0..MaxLimit
InsertData == {1}
InsertProjects == {1, 9}

\* one operation at a time, as section 5 of the design has it
Next ==
    \/ \E project_id \in ProjectIds : AllIdle /\ ScanStart(1, project_id)
    \/ ScanPopDir(1)
    \/ ScanEntry(1)
    \/ ScanInsert(1)
    \/ \E project_id \in Filters, limit \in Limits :
          AllIdle /\ WorkStart(1, project_id, limit)
    \/ WorkNext(1)
    \/ WorkOcr(1)
    \/ Return(1)
    \/ \E project_id \in InsertProjects, data \in InsertData :
          AllIdle /\ InsertJob(1, project_id, data)

Spec == Init /\ [][Next]_vars

\* two callers at once on the same store: their scans and direct inserts
\* interleave statement by statement
ConcTrees ==
    { MkTree({ <<<<in_dir, a_pdf>>, 1>>, <<<<in_dir, sub_dir, c_pdf>>, 1>> }) }

InitConc ==
    /\ fs \in ConcTrees
    /\ jobs = << >>
    /\ zip_extractions = {}
    /\ originals = {}
    /\ artifacts = {}
    /\ run = [p \in Procs |-> Idle]
    /\ edits = 0
    /\ edited = {}
    /\ inserts = 0
    /\ lastScan = 0
    /\ claimedOnce = {}
    /\ claimedTwice = {}

NextConc ==
    \/ \E p \in Procs, project_id \in {1} : ScanStart(p, project_id)
    \/ \E p \in Procs : ScanPopDir(p)
    \/ \E p \in Procs : ScanEntry(p)
    \/ \E p \in Procs : ScanInsert(p)
    \/ \E p \in Procs : Return(p)
    \/ \E p \in Procs, project_id \in InsertProjects, data \in InsertData :
          InsertJob(p, project_id, data)

SpecConc == InitConc /\ [][NextConc]_vars

\* scans of one project with the input tree edited between them
EditTrees ==
    { MkTree({ <<<<in_dir, b_PDF>>, 1>>, <<<<in_dir, z_zip>>, 10>> }) }

InitEdit ==
    /\ fs \in EditTrees
    /\ jobs = << >>
    /\ zip_extractions = {}
    /\ originals = {}
    /\ artifacts = {}
    /\ run = [p \in Procs |-> Idle]
    /\ edits = 0
    /\ edited = {}
    /\ inserts = 0
    /\ lastScan = 0
    /\ claimedOnce = {}
    /\ claimedTwice = {}

NextEdit ==
    \/ \E project_id \in {1} : AllIdle /\ ScanStart(1, project_id)
    \/ ScanPopDir(1)
    \/ ScanEntry(1)
    \/ ScanInsert(1)
    \/ Return(1)
    \/ EditFs

SpecEdit == InitEdit /\ [][NextEdit]_vars

\* scans of one project in which reading or copying a file can fail
FaultTrees ==
    { MkTree({ <<<<in_dir, b_PDF>>, 1>>, <<<<in_dir, z_zip>>, 10>> }) }

InitFault ==
    /\ fs \in FaultTrees
    /\ jobs = << >>
    /\ zip_extractions = {}
    /\ originals = {}
    /\ artifacts = {}
    /\ run = [p \in Procs |-> Idle]
    /\ edits = 0
    /\ edited = {}
    /\ inserts = 0
    /\ lastScan = 0
    /\ claimedOnce = {}
    /\ claimedTwice = {}

NextFault ==
    \/ \E project_id \in {1} : AllIdle /\ ScanStart(1, project_id)
    \/ ScanPopDir(1)
    \/ ScanEntry(1)
    \/ ScanInsert(1)
    \/ ScanFault(1)
    \/ Return(1)

SpecFault == InitFault /\ [][NextFault]_vars

\* scans that, once called, run on to their return
LiveTrees ==
    { MkTree({ <<<<in_dir, b_PDF>>, 1>>, <<<<in_dir, z_zip>>, 10>> }),
      MkTree({ <<<<in_dir, a_png>>, 1>>, <<<<in_dir, z_zip>>, 13>> }),
      MkTree({ <<<<in_dir, z_zip>>, 14>>, <<<<in_dir, sub_dir, c_pdf>>, 2>> }) }

InitLive ==
    /\ fs \in LiveTrees
    /\ jobs = << >>
    /\ zip_extractions = {}
    /\ originals = {}
    /\ artifacts = {}
    /\ run = [p \in Procs |-> Idle]
    /\ edits = 0
    /\ edited = {}
    /\ inserts = 0
    /\ lastScan = 0
    /\ claimedOnce = {}
    /\ claimedTwice = {}

NextLive ==
    \/ \E project_id \in {1, 2} : AllIdle /\ ScanStart(1, project_id)
    \/ ScanPopDir(1)
    \/ ScanEntry(1)
    \/ ScanInsert(1)
    \/ Return(1)

\* a call that has begun keeps executing its statements
SpecLive ==
    /\ InitLive /\ [][NextLive]_vars
    /\ WF_vars(ScanPopDir(1) \/ ScanEntry(1) \/ ScanInsert(1))

\* process_jobs called again and again with limit 1, between and after the
\* scans and direct inserts that make the jobs
StarveTrees ==
    { MkTree({ <<<<in_dir, a_pdf>>, 1>>, <<<<in_dir, sub_dir, c_pdf>>, 2>> }) }

InitStarve ==
    /\ fs \in StarveTrees
    /\ jobs = << >>
    /\ zip_extractions = {}
    /\ originals = {}
    /\ artifacts = {}
    /\ run = [p \in Procs |-> Idle]
    /\ edits = 0
    /\ edited = {}
    /\ inserts = 0
    /\ lastScan = 0
    /\ claimedOnce = {}
    /\ claimedTwice = {}

FixedLimit == 1

WorkCall == \E project_id \in Filters : AllIdle /\ WorkStart(1, project_id, FixedLimit)

NextStarve ==
    \/ \E project_id \in {1} : AllIdle /\ ScanStart(1, project_id)
    \/ ScanPopDir(1)
    \/ ScanEntry(1)
    \/ ScanInsert(1)
    \/ WorkCall
    \/ WorkNext(1)
    \/ WorkOcr(1)
    \/ Return(1)
    \/ \E project_id \in InsertProjects, data \in InsertData :
          AllIdle /\ InsertJob(1, project_id, data)

\* every call that has begun runs on to its return, and process_jobs is
\* called again and again
SpecStarve ==
    /\ InitStarve /\ [][NextStarve]_vars
    /\ WF_vars(ScanPopDir(1) \/ ScanEntry(1) \/ ScanInsert(1))
    /\ WF_vars(WorkNext(1) \/ WorkOcr(1))
    /\ WF_vars(Return(1))
    /\ SF_vars(WorkCall)

\* two process_jobs runs at once on the same store, their statements
\* interleaved, over the jobs a scan has made
WorkTrees ==
    { MkTree({ <<<<in_dir, a_pdf>>, 1>>, <<<<in_dir, sub_dir, c_pdf>>, 2>> }) }

InitWork ==
    /\ fs \in WorkTrees
    /\ jobs = << >>
    /\ zip_extractions = {}
    /\ originals = {}
    /\ artifacts = {}
    /\ run = [p \in Procs |-> Idle]
    /\ edits = 0
    /\ edited = {}
    /\ inserts = 0
    /\ lastScan = 0
    /\ claimedOnce = {}
    /\ claimedTwice = {}

NextWork ==
    \/ \E project_id \in {1} : AllIdle /\ ScanStart(1, project_id)
    \/ ScanPopDir(1)
    \/ ScanEntry(1)
    \/ ScanInsert(1)
    \/ \E p \in Procs, project_id \in Filters, limit \in 1..MaxLimit :
          WorkStart(p, project_id, limit)
    \/ \E p \in Procs : WorkNext(p)
    \/ \E p \in Procs : WorkOcr(p)
    \/ \E p \in Procs : Return(p)

SpecWork == InitWork /\ [][NextWork]_vars

(***************************************************************************)
(* Properties.                                                             *)
(***************************************************************************)
JobIds == 1..Len(jobs)
Scanning(p) == run[p].op = "scan" /\ run[p].pc \in {"loop", "entries", "insert", "done"}
Working(p) == run[p].op = "work"

\* C1: no two job rows have the same (project_id, content digest), whatever
\* the interleaving of scans and direct insert_job calls
C1_UniqueProjectDigest ==
    \A i \in JobIds, j \in JobIds :
        (i # j) => ~(jobs[i].project_id = jobs[j].project_id /\ jobs[i].hash = jobs[j].hash)

\* a scan lost the race: it passed the job_exists test and its insert_job met
\* the row another caller had inserted meanwhile
C1_Witness ==
    \E p \in Procs :
        /\ run[p].op = "scan" /\ run[p].pc = "raised" /\ run[p].exc = "IntegrityError"
        /\ Len(jobs) >= 1

\* a file the scanner would ingest: not hidden, not a directory, a supported
\* extension whatever its case
IsSupportedFile(f, path) ==
    /\ ~(Name(path)[1] = ".")
    /\ f[path].kind = "file"
    /\ Lower(Suffix(Name(path))) \in SUPPORTED_EXTENSIONS

JobsOf(js, project_id, digest) ==
    {i \in 1..Len(js) : js[i].project_id = project_id /\ js[i].hash = digest}

\* one step of a scan over a supported file: when a job with the file's digest
\* exists in the project the step counts it in skipped_existing and adds no
\* job and no canonical copy; when none exists the next step adds exactly one
C2_Step ==
    \A p \in Procs :
        /\ (/\ run[p].op = "scan" /\ run[p].pc = "entries"
            /\ run'[p] # run[p]
            /\ IsSupportedFile(fs, run'[p].entry))
           => LET r == run[p]
                  digest == <<"sha256", fs[run'[p].entry].data>>
              IN  IF JobsOf(jobs, r.project.id, digest) # {}
                  THEN /\ run'[p].summary.skipped_existing = r.summary.skipped_existing + 1
                       /\ run'[p].summary.new_jobs = r.summary.new_jobs
                       /\ run'[p].pc # "insert"
                       /\ jobs' = jobs
                       /\ originals' = originals
                  ELSE /\ run'[p].pc = "insert"
                       /\ run'[p].summary = r.summary
                       /\ jobs' = jobs
        /\ (/\ run[p].op = "scan" /\ run[p].pc = "insert"
            /\ run'[p] # run[p])
           => LET r == run[p]
                  digest == <<"sha256", fs[r.entry].data>>
              IN  /\ Cardinality(JobsOf(jobs', r.project.id, digest)) = 1
                  /\ Len(jobs') = Len(jobs) + 1
                  /\ run'[p].pc # "raised"
                  /\ run'[p].summary.new_jobs = r.summary.new_jobs + 1

\* C2: identical content under one project gets exactly one job; every other
\* encounter of it, in the same or a later scan, is counted in
\* skipped_existing and creates no job and no canonical copy
C2_OneJobPerContent ==
    /\ [](\A i \in JobIds :
            Cardinality(JobsOf(jobs, jobs[i].project_id, jobs[i].hash)) = 1)
    /\ [][C2_Step]_vars

\* a scan that created a job and met the same or another known content again
C2_Witness ==
    \E p \in Procs :
        /\ run[p].op = "scan" /\ run[p].pc = "done"
        /\ run[p].summary.new_jobs >= 1
        /\ run[p].summary.skipped_existing >= 1
        /\ \E a \in DOMAIN fs, b \in DOMAIN fs :
              /\ a # b /\ IsSupportedFile(fs, a) /\ IsSupportedFile(fs, b)
              /\ fs[a].data = fs[b].data

\* C3: a scan that directly follows a returned scan of the same project, the
\* tree untouched in between, returns new_jobs = 0 and zip_extracted = 0 and
\* adds no job and no extraction record
C3_SecondScanIsNoOp ==
    \A p \in Procs :
        (run[p].op = "scan" /\ run[p].pc = "done" /\ run[p].repeat)
        => /\ run[p].summary.new_jobs = 0
           /\ run[p].summary.zip_extracted = 0
           /\ Len(jobs) = run[p].jobs0
           /\ zip_extractions = run[p].recs0

Statuses == {"pending", "in_progress", "done", "failed"}
Transitions == { <<"pending", "in_progress">>, <<"in_progress", "done">>,
                 <<"in_progress", "failed">> }

C4_Step ==
    /\ Len(jobs') >= Len(jobs)
    /\ \A i \in 1..Len(jobs) :
          /\ jobs'[i].id = jobs[i].id
          /\ \/ jobs'[i].status = jobs[i].status
             \/ <<jobs[i].status, jobs'[i].status>> \in Transitions
    /\ \A i \in (Len(jobs) + 1)..Len(jobs') : jobs'[i].status = "pending"

\* C4: statuses stay in the closed set, a job is created pending, a status
\* only moves pending -> in_progress -> done | failed, no job is deleted
C4_StatusMachine ==
    /\ [](\A i \in JobIds : jobs[i].status \in Statuses)
    /\ [][C4_Step]_vars

\* a job went through in_progress to a final status while another is pending
C4_Witness ==
    /\ \E i \in JobIds : jobs[i].status \in {"done", "failed"} /\ i \in claimedOnce
    /\ \E i \in JobIds : jobs[i].status = "pending"

\* C5: over calls that run one after another no job is moved to in_progress,
\* and handed to the OCR call, a second time
C5_ClaimedAtMostOnce == claimedTwice = {}

\* a later call started when a job had already been claimed, and claimed more
C5_Witness ==
    \E p \in Procs :
        /\ run[p].op = "work" /\ run[p].pc = "done"
        /\ \E i \in 1..Len(run[p].jobs0) : run[p].jobs0[i].status # "pending"
        /\ run[p].summary.processed >= 1

\* creation time, then id
Earlier(js, i, j) ==
    \/ js[i].created_at < js[j].created_at
    \/ js[i].created_at = js[j].created_at /\ js[i].id < js[j].id

PendingAtStart(r) ==
    {i \in 1..Len(r.jobs0) :
        /\ r.jobs0[i].status = "pending"
        /\ (r.project_id = AllProjects \/ r.jobs0[i].project_id = r.project_id)}

FetchedIds(r) == {r.jobs[k].id : k \in 1..Len(r.jobs)}

Resolvable(project_id) == \E pr \in projects : pr.id = project_id

\* C6: a call claims at most limit jobs, all pending at its start and of the
\* filtered project, the earliest ones by (creation time, id), and handles
\* them in that order
C6_FifoClaim ==
    \A p \in Procs :
        Working(p) =>
        LET r == run[p]
        IN  /\ Len(r.jobs) <= r.limit
            /\ \A k \in 1..Len(r.jobs) :
                  /\ r.jobs[k].id \in PendingAtStart(r)
                  /\ r.jobs[k] = r.jobs0[r.jobs[k].id]
            /\ \A k \in 1..Len(r.jobs), l \in 1..Len(r.jobs) :
                  (k < l) => Earlier(r.jobs0, r.jobs[k].id, r.jobs[l].id)
            /\ \A e \in PendingAtStart(r) \ FetchedIds(r), f \in FetchedIds(r) :
                  Earlier(r.jobs0, f, e)
            /\ \A k \in 1..Len(r.jobs) :
                  /\ (k > r.idx) => jobs[r.jobs[k].id].status = "pending"
                  /\ (k < r.idx /\ Resolvable(r.jobs[k].project_id))
                        => jobs[r.jobs[k].id].status # "pending"

\* a call with a project filter that took limit jobs and left a later one
C6_Witness ==
    \E p \in Procs :
        /\ Working(p) /\ run[p].pc = "done"
        /\ run[p].limit >= 1 /\ Len(run[p].jobs) = run[p].limit
        /\ run[p].project_id # AllProjects
        /\ Cardinality(PendingAtStart(run[p])) > run[p].limit

\* C7: a claimed job whose OCR call or artifact write fails ends in failed
\* with a non-empty message and is counted in failed, and the jobs claimed
\* after it are still handled
C7_FailureIsolated ==
    \A p \in Procs :
        Working(p) =>
        LET r == run[p]
            handled == {k \in 1..Len(r.jobs) :
                            k < r.idx /\ Resolvable(r.jobs[k].project_id)}
            failed == {k \in handled : jobs[r.jobs[k].id].status = "failed"}
        IN  /\ \A k \in handled : jobs[r.jobs[k].id].status \in {"done", "failed"}
            /\ \A k \in failed : jobs[r.jobs[k].id].error_message \notin {None, ""}
            /\ r.summary.failed = Cardinality(failed)
            /\ r.pc \in {"loop", "ocr", "done"}
            /\ (r.pc = "done") => r.idx > Len(r.jobs)

\* a call in which a job failed and a job claimed after it was handled too
C7_Witness ==
    \E p \in Procs :
        /\ Working(p) /\ run[p].pc = "done"
        /\ run[p].summary.failed >= 1
        /\ \E k \in 1..Len(run[p].jobs), l \in 1..Len(run[p].jobs) :
              /\ k < l
              /\ jobs[run[p].jobs[k].id].status = "failed"
              /\ jobs[run[p].jobs[l].id].status \in {"done", "failed"}

\* C8: process_jobs(project, limit 1) over one pending job of an existing
\* project whose canonical file is present returns succeeded = 1, leaves the
\* job done after in_progress, and leaves ocr/<job_id>.json
C8_OneJobSucceeds ==
    \A p \in Procs :
        (/\ Working(p) /\ run[p].pc = "done"
         /\ run[p].limit = 1 /\ run[p].project_id # AllProjects
         /\ Resolvable(run[p].project_id)
         /\ Len(run[p].jobs) = 1
         /\ \E o \in originals : /\ o.project_id = run[p].jobs[1].project_id
                                 /\ o.name = run[p].jobs[1].original_fullpath.name)
        => LET job == run[p].jobs[1]
           IN  /\ run[p].summary.succeeded = 1
               /\ jobs[job.id].status = "done"
               /\ job.id \in claimedOnce
               /\ \E a \in artifacts : a.job_id = job.id

\* C9 as stated: on return processed equals the number of fetched jobs
C9_ProcessedEqualsFetched ==
    \A p \in Procs :
        (Working(p) /\ run[p].pc = "done") => run[p].summary.processed = Len(run[p].jobs)

\* C9, amended: processed counts, once each and whatever the outcome, the
\* fetched jobs whose project is resolved; on return it equals their number
C9_ProcessedEqualsResolved ==
    \A p \in Procs :
        Working(p) =>
        LET r == run[p]
            resolved == {k \in 1..Len(r.jobs) : Resolvable(r.jobs[k].project_id)}
        IN  /\ r.summary.processed = Cardinality({k \in resolved : k < r.idx})
            /\ r.summary.processed = r.summary.succeeded + r.summary.failed
            /\ (r.pc = "done") => r.summary.processed = Cardinality(resolved)

\* a call returned after it skipped one fetched job and handled another
C9_Witness ==
    \E p \in Procs :
        /\ Working(p) /\ run[p].pc = "done"
        /\ run[p].summary.processed >= 1
        /\ \E k \in 1..Len(run[p].jobs) : ~Resolvable(run[p].jobs[k].project_id)

C10_Step ==
    \A p \in Procs :
        (/\ Working(p) /\ run[p].pc = "loop"
         /\ run[p].idx <= Len(run[p].jobs)
         /\ ~Resolvable(run[p].jobs[run[p].idx].project_id)
         /\ run'[p] # run[p])
        => /\ jobs' = jobs
           /\ claimedOnce' = claimedOnce
           /\ run'[p].summary = run[p].summary
           /\ run'[p].pc = "loop"
           /\ run'[p].idx = run[p].idx + 1

\* C10: a fetched job whose project is not found is skipped: it stays
\* pending, no counter moves, no OCR call is made for it, and the rest of the
\* batch is still handled
C10_UnresolvedSkipped ==
    /\ [][C10_Step]_vars
    /\ [](\A p \in Procs :
            Working(p) =>
            \A k \in 1..Len(run[p].jobs) :
                IF Resolvable(run[p].jobs[k].project_id)
                THEN (run[p].pc = "done") =>
                        jobs[run[p].jobs[k].id].status \in {"done", "failed"}
                ELSE /\ jobs[run[p].jobs[k].id].status = "pending"
                     /\ run[p].jobs[k].id \notin claimedOnce)

\* a batch whose first job was skipped and whose second job was handled
C10_Witness ==
    \E p \in Procs :
        /\ Working(p) /\ run[p].pc = "done"
        /\ Len(run[p].jobs) >= 2
        /\ ~Resolvable(run[p].jobs[1].project_id)
        /\ jobs[run[p].jobs[2].id].status = "failed"

\* C11: an insert_job call for a (project, digest) that already has a row
\* does not end with an error and leaves the rows as they were
C11_DuplicateInsertIsNoError ==
    \A p \in Procs :
        (/\ run[p].op = "insert"
         /\ JobsOf(run[p].jobs0, run[p].project_id, run[p].file_hash) # {})
        => /\ run[p].pc = "done"
           /\ jobs = run[p].jobs0

\* an archive the scanner would open: not hidden, a file, suffix .zip
\* whatever its case
IsArchive(f, path) ==
    /\ ~(Name(path)[1] = ".")
    /\ f[path].kind = "file"
    /\ Lower(Suffix(Name(path))) = ZIP_SUFFIX

ZipKey(f, project_id, path) ==
    [project_id |-> project_id, zip_path |-> path,
     zip_hash |-> <<"sha256", f[path].data>>]

\* one step of a scan over an archive: with an extraction record for its
\* (project, path, digest) nothing is extracted, recorded, counted or
\* re-enqueued; an extraction happens only without such a record and adds it
C12_Step ==
    /\ zip_extractions \subseteq zip_extractions'
    /\ \A p \in Procs :
        (/\ run[p].op = "scan" /\ run[p].pc = "entries"
         /\ run'[p] # run[p]
         /\ IsArchive(fs, run'[p].entry))
        => LET r == run[p]
               key == ZipKey(fs, r.project.id, run'[p].entry)
           IN  IF key \in zip_extractions
               THEN /\ fs' = fs
                    /\ zip_extractions' = zip_extractions
                    /\ run'[p].summary = r.summary
                    /\ run'[p].queue = r.queue
                    /\ run'[p].last # "extracted"
               ELSE (run'[p].last = "extracted")
                    => /\ zip_extractions' = zip_extractions \cup {key}
                       /\ run'[p].summary.zip_extracted = r.summary.zip_extracted + 1

\* C12: over any sequence of scans an archive is extracted at most once for
\* each (project, archive path, archive digest): a recorded archive is left
\* alone, and records are only ever added
C12_ExtractedOncePerKey == [][C12_Step]_vars

\* a later scan met an archive that an earlier scan had extracted and recorded
C12_Witness ==
    \E p \in Procs :
        /\ run[p].op = "scan" /\ run[p].pc \in {"loop", "entries"}
        /\ run[p].last = "zip"
        /\ IsArchive(fs, run[p].entry)
        /\ ZipKey(fs, run[p].project.id, run[p].entry) \in run[p].recs0

\* path lies below root and no name on the way down from root is hidden
Visible(root, path) ==
    /\ Len(path) > Len(root)
    /\ SubSeq(path, 1, Len(root)) = root
    /\ \A k \in (Len(root) + 1)..Len(path) : path[k][1] # "."

\* an archive whose every member extracts
ValidArchive(f, path) ==
    /\ IsArchive(f, path)
    /\ ZipInfo(f[path].data).valid
    /\ \A k \in 1..Len(ZipInfo(f[path].data).members) :
          ZipInfo(f[path].data).members[k].crc_ok

SupportedMembers(data) ==
    {m \in {ZipInfo(data).members[k] : k \in 1..Len(ZipInfo(data).members)} :
        /\ \A k \in 1..Len(m.path) : m.path[k][1] # "."
        /\ Lower(Suffix(Name(m.path))) \in SUPPORTED_EXTENSIONS}

\* the archive at path z was extracted by the scan r: its record is new, it
\* was counted, and every supported member is in the tree and has a job,
\* created by this scan when its content had none before
ExtractedInScan(r, z) ==
    /\ ZipKey(fs, r.project.id, z) \in zip_extractions \ r.recs0
    /\ r.summary.zip_extracted >= 1
    /\ \A m \in SupportedMembers(fs[z].data) :
          /\ exists(fs, Parent(z) \o m.path)
          /\ JobsOf(jobs, r.project.id, <<"sha256", m.data>>) # {}
          /\ (\A i \in JobsOf(jobs, r.project.id, <<"sha256", m.data>>) : i > r.jobs0)
                => r.summary.new_jobs >= 1

\* the archive at path z had been extracted by an earlier scan and has been
\* replaced, since the last scan began, by a valid archive of other content
ReplacedArchive(r, z) ==
    /\ Visible(r.project.input_path, z)
    /\ ValidArchive(fs, z)
    /\ \E x \in r.replaced : x[1] = z /\ x[2] # fs[z].data
    /\ \E rec \in r.recs0 : rec.project_id = r.project.id /\ rec.zip_path = z

\* C13 as stated: the scan after an archive was replaced by a valid archive
\* of different digest extracts it again, counts it, records the new digest
\* and creates the jobs of its members
C13_ReplacedIsReextracted ==
    \A p \in Procs :
        (run[p].op = "scan" /\ run[p].pc = "done")
        => \A z \in DOMAIN fs :
              ReplacedArchive(run[p], z) => ExtractedInScan(run[p], z)

\* C13, amended: the same, for a replacement whose digest has no extraction
\* record yet for that project and path
C13_ReplacedByUnrecordedIsReextracted ==
    \A p \in Procs :
        (run[p].op = "scan" /\ run[p].pc = "done")
        => \A z \in DOMAIN fs :
              (/\ ReplacedArchive(run[p], z)
               /\ ZipKey(fs, run[p].project.id, z) \notin run[p].recs0)
              => ExtractedInScan(run[p], z)

\* a scan ended after it met a replaced archive of a digest not seen before
C13_Witness ==
    \E p \in Procs :
        /\ run[p].op = "scan" /\ run[p].pc = "done"
        /\ \E z \in DOMAIN fs :
              /\ ReplacedArchive(run[p], z)
              /\ ZipKey(fs, run[p].project.id, z) \notin run[p].recs0
              /\ SupportedMembers(fs[z].data) # {}

\* one step of a scan over an archive that cannot be read, or whose
\* extraction stops at a damaged member: no record, no count, no re-enqueue,
\* no exception, and the listing goes on with the entries that are left
C14_Step ==
    \A p \in Procs :
        (/\ run[p].op = "scan" /\ run[p].pc = "entries"
         /\ run'[p] # run[p]
         /\ IsArchive(fs, run'[p].entry)
         /\ ~ValidArchive(fs, run'[p].entry))
        => LET r == run[p]
           IN  /\ zip_extractions' = zip_extractions
               /\ jobs' = jobs
               /\ run'[p].summary = r.summary
               /\ run'[p].queue = r.queue
               /\ run'[p].entries = r.entries \ {run'[p].entry}
               /\ run'[p].pc = AfterEntry(run'[p].entries)
               /\ (~ZipInfo(fs[run'[p].entry].data).valid) => fs' = fs

\* every supported file a scan can reach has a job of the scanned project
ScanComplete(r) ==
    \A path \in DOMAIN fs :
        (Visible(r.project.input_path, path) /\ IsSupportedFile(fs, path))
        => JobsOf(jobs, r.project.id, <<"sha256", fs[path].data>>) # {}

\* no archive under root is readable and damaged at once
NoDamagedMember(root) ==
    \A z \in DOMAIN fs :
        (Visible(root, z) /\ IsArchive(fs, z) /\ ZipInfo(fs[z].data).valid)
        => ValidArchive(fs, z)

\* C14: an invalid archive does not abort the scan: nothing is recorded or
\* counted for it, its directory is not re-enqueued, the other entries are
\* still scanned, and with no record it is opened again by the next scan
C14_InvalidArchiveSkipped ==
    /\ [][C14_Step]_vars
    /\ [](\A rec \in zip_extractions :
            /\ ZipInfo(rec.zip_hash[2]).valid
            /\ \A k \in 1..Len(ZipInfo(rec.zip_hash[2]).members) :
                  ZipInfo(rec.zip_hash[2]).members[k].crc_ok)
    /\ [](\A p \in Procs :
            (/\ run[p].op = "scan" /\ run[p].pc = "done"
             /\ NoDamagedMember(run[p].project.input_path))
            => ScanComplete(run[p]))

\* a second scan of a tree with an unreadable archive ended: it met the
\* archive again and the files beside it have their jobs
C14_Witness ==
    \E p \in Procs :
        /\ run[p].op = "scan" /\ run[p].pc = "done" /\ run[p].repeat
        /\ run[p].summary.skipped_existing >= 1
        /\ zip_extractions = {}
        /\ \E z \in DOMAIN fs :
              /\ Visible(run[p].project.input_path, z)
              /\ IsArchive(fs, z)
              /\ ~ZipInfo(fs[z].data).valid

VisibleArchives(root) ==
    {z \in DOMAIN fs : Visible(root, z) /\ IsArchive(fs, z)}

VisibleDigests(root) ==
    {<<"sha256", fs[path].data>> :
        path \in {q \in DOMAIN fs : Visible(root, q) /\ IsSupportedFile(fs, q)}}

\* C15: the first scan of a tree whose only archive is valid, with supported
\* members of contents distinct from each other, returns zip_extracted = 1,
\* has created in that same scan one job for every member and every other
\* content of the tree, and leaves the members extracted in the tree
C15_FreshArchiveScan ==
    \A p \in Procs :
        (/\ run[p].op = "scan" /\ run[p].pc = "done"
         /\ run[p].jobs0 = 0 /\ run[p].recs0 = {}
         /\ Cardinality(VisibleArchives(run[p].project.input_path)) = 1
         /\ \A z \in VisibleArchives(run[p].project.input_path) :
               /\ ValidArchive(fs, z)
               /\ \A m \in SupportedMembers(fs[z].data), n \in SupportedMembers(fs[z].data) :
                     (m # n) => m.data # n.data)
        => LET r == run[p]
               root == r.project.input_path
           IN  /\ r.summary.zip_extracted = 1
               /\ \A z \in VisibleArchives(root) :
                     /\ ZipKey(fs, r.project.id, z) \in zip_extractions
                     /\ \A m \in SupportedMembers(fs[z].data) :
                           /\ exists(fs, Parent(z) \o m.path)
                           /\ fs[Parent(z) \o m.path].data = m.data
                           /\ Cardinality(JobsOf(jobs, r.project.id,
                                                 <<"sha256", m.data>>)) = 1
               /\ r.summary.new_jobs = Cardinality(VisibleDigests(root))
               /\ Len(jobs) = r.summary.new_jobs

\* a first scan ended over a tree with one file and one archive of two members
C15_Witness ==
    \E p \in Procs :
        /\ run[p].op = "scan" /\ run[p].pc = "done"
        /\ run[p].jobs0 = 0 /\ run[p].recs0 = {}
        /\ run[p].summary.zip_extracted = 1
        /\ run[p].summary.new_jobs = 3
        /\ \E z \in VisibleArchives(run[p].project.input_path) :
              /\ ValidArchive(fs, z)
              /\ Cardinality(SupportedMembers(fs[z].data)) = 2

\* the project row with that id is missing, or its input root is missing
\* or is not a directory
BadScanTarget(project_id) ==
    \/ ~Resolvable(project_id)
    \/ \E pr \in projects :
          /\ pr.id = project_id
          /\ ~(pr.input_path \in DOMAIN fs /\ fs[pr.input_path].kind = "dir")

C16_Step ==
    \A p \in Procs :
        (/\ run[p].op = "idle" /\ run'[p].op = "scan"
         /\ BadScanTarget(run'[p].project_id))
        => /\ run'[p].pc = "raised"
           /\ run'[p].exc = IF Resolvable(run'[p].project_id)
                            THEN "FileNotFoundError" ELSE "ValueError"
           /\ jobs' = jobs
           /\ zip_extractions' = zip_extractions
           /\ originals' = originals
           /\ fs' = fs

\* C16: scan_project for a missing project, or for a project whose input
\* root is missing or is no directory, ends at once with ValueError or
\* FileNotFoundError and leaves jobs, extraction records, the originals and
\* the tree as they were; a scan that goes on has a project and a root
C16_BadTargetFailsClean ==
    /\ [][C16_Step]_vars
    /\ [](\A p \in Procs :
            (run[p].op = "scan" /\ run[p].pc # "raised")
            => ~BadScanTarget(run[p].project_id))

\* a scan of the project whose input root is a file has failed, with jobs in
\* the store
C16_Witness ==
    \E p \in Procs :
        /\ run[p].op = "scan" /\ run[p].pc = "raised"
        /\ run[p].exc = "FileNotFoundError"
        /\ get_project(run[p].project_id).input_path \in DOMAIN fs
        /\ Len(jobs) >= 1
        /\ Len(jobs) = run[p].jobs0

\* C17: a scan_project call that ends with an exception has persisted
\* nothing: the jobs and the extraction records are those from before the call
C17_AbortPersistsNothing ==
    \A p \in Procs :
        (run[p].op = "scan" /\ run[p].pc = "raised")
        => /\ Len(jobs) = run[p].jobs0
           /\ zip_extractions = run[p].recs0

\* sum(counts.values())
RECURSIVE SumOver(_, _)
SumOver(counts, keys) ==
    IF keys = {} THEN 0
    ELSE LET k == CHOOSE x \in keys : TRUE
         IN  counts[k] + SumOver(counts, keys \ {k})

SumValues(counts) == SumOver(counts, DOMAIN counts)

\* counts.get(key, 0)
CountOf(counts, key) == IF key \in DOMAIN counts THEN counts[key] ELSE 0

ReportScopes == ProjectIds \cup {AllProjects}

\* a step that changes the status of some job changes it for one job, moves
\* one unit between the two status counts of every report the job is in, and
\* leaves every total and every extension count alone
C18_Step ==
    LET changed == {i \in 1..Len(jobs) : jobs'[i].status # jobs[i].status}
    IN  (jobs' # jobs /\ Len(jobs') = Len(jobs) /\ changed # {})
        => /\ Cardinality(changed) = 1
           /\ \A i \in changed, scope \in ReportScopes :
                LET before == count_jobs_by_status(jobs, scope)
                    after == count_jobs_by_status(jobs', scope)
                    inScope == scope = AllProjects \/ jobs[i].project_id = scope
                IN  /\ \A s \in Statuses :
                          CountOf(after, s) = CountOf(before, s)
                              + (IF inScope /\ s = jobs'[i].status THEN 1 ELSE 0)
                              - (IF inScope /\ s = jobs[i].status THEN 1 ELSE 0)
                    /\ total_jobs(jobs', scope) = total_jobs(jobs, scope)
                    /\ count_jobs_by_extension(jobs', scope)
                          = count_jobs_by_extension(jobs, scope)

\* C18: for every project, and for all projects together, the status counts
\* and the extension counts each sum to the total job count, and a status
\* transition moves one job between two status counts and nothing else
C18_CountsSumToTotal ==
    /\ [](\A scope \in ReportScopes :
            LET by_status == count_jobs_by_status(jobs, scope)
                by_extension == count_jobs_by_extension(jobs, scope)
                total == total_jobs(jobs, scope)
            IN  /\ SumValues(by_status) = total
                /\ SumValues(by_extension) = total
                /\ DOMAIN by_status \subseteq Statuses)
    /\ [][C18_Step]_vars

\* a project with jobs in two statuses and of two extensions, beside a job of
\* another project
C18_Witness ==
    \E scope \in ProjectIds :
        /\ Cardinality(DOMAIN count_jobs_by_status(jobs, scope)) >= 2
        /\ Cardinality(DOMAIN count_jobs_by_extension(jobs, scope)) >= 2
        /\ total_jobs(jobs, scope) < total_jobs(jobs, AllProjects)

\* a job row written by scan_project: its relative path is the digest and
\* the file name
ScanJobs == {i \in JobIds : Len(jobs[i].original_relpath) = 2}

InputRoot(project_id) == (CHOOSE pr \in projects : pr.id = project_id).input_path

\* one step of a scan over a hidden entry, or over a file that is neither
\* an archive nor of a supported extension: nothing changes but the position
\* in the listing
C19_Step ==
    \A p \in Procs :
        (/\ run[p].op = "scan" /\ run[p].pc = "entries"
         /\ run'[p] # run[p]
         /\ \/ Name(run'[p].entry)[1] = "."
            \/ /\ fs[run'[p].entry].kind = "file"
               /\ Lower(Suffix(Name(run'[p].entry)))
                     \notin SUPPORTED_EXTENSIONS \cup {ZIP_SUFFIX})
        => /\ jobs' = jobs
           /\ zip_extractions' = zip_extractions
           /\ originals' = originals
           /\ fs' = fs
           /\ run'[p].summary = run[p].summary
           /\ run'[p].queue = run[p].queue
           /\ run'[p].pc = AfterEntry(run'[p].entries)

\* C19: scan_project makes jobs only of non-hidden files of a supported
\* extension, whatever its case, reached through non-hidden directories, and
\* extracts only such archives; hidden entries and other files change no
\* job, no record, no counter and raise nothing
C19_OnlyVisibleSupported ==
    /\ [][C19_Step]_vars
    /\ [](\A i \in ScanJobs :
            /\ jobs[i].file_extension \in SUPPORTED_EXTENSIONS
            /\ \E path \in DOMAIN fs :
                  /\ jobs[i].hash = <<"sha256", fs[path].data>>
                  /\ jobs[i].original_relpath[2] = Name(path)
                  /\ IsSupportedFile(fs, path)
                  /\ Visible(InputRoot(jobs[i].project_id), path))
    /\ [](\A rec \in zip_extractions :
            /\ Visible(InputRoot(rec.project_id), rec.zip_path)
            /\ IsArchive(fs, rec.zip_path))

\* a scan ended over a tree with a hidden file, a file below a hidden
\* directory, a hidden archive and a file of another extension
C19_Witness ==
    \E p \in Procs :
        /\ run[p].op = "scan" /\ run[p].pc = "done"
        /\ run[p].summary.new_jobs >= 1
        /\ LET root == run[p].project.input_path
               under == {q \in DOMAIN fs : Len(q) > Len(root)
                                           /\ SubSeq(q, 1, Len(root)) = root
                                           /\ fs[q].kind = "file"}
           IN  /\ \E q \in under : /\ Name(q)[1] = "."
                                   /\ Lower(Suffix(Name(q))) \in SUPPORTED_EXTENSIONS
               /\ \E q \in under : /\ Name(q)[1] # "." /\ ~Visible(root, q)
                                   /\ Lower(Suffix(Name(q))) \in SUPPORTED_EXTENSIONS
               /\ \E q \in under : /\ Name(q)[1] = "."
                                   /\ Lower(Suffix(Name(q))) = ZIP_SUFFIX
                                   /\ ZipInfo(fs[q].data).valid
               /\ \E q \in under : /\ Visible(root, q)
                                   /\ Lower(Suffix(Name(q)))
                                         \notin SUPPORTED_EXTENSIONS \cup {ZIP_SUFFIX}

\* the canonical copies that some job row of scan_project points at
CopiesOfJobs ==
    {o \in originals :
        \E i \in ScanJobs :
            jobs[i].original_fullpath = [project_id |-> o.project_id, name |-> o.name]}

\* a step creates its job rows in pending and removes or rewrites no
\* canonical copy that a job points at
C20_Step ==
    /\ \A i \in (Len(jobs) + 1)..Len(jobs') : jobs'[i].status = "pending"
    /\ CopiesOfJobs \subseteq originals'

\* C20: a job of scan_project is created pending, with its canonical copy at
\* originals/<digest>_<file name> of its project holding the file's bytes;
\* two jobs of one project never share a canonical path, and a new copy never
\* overwrites the copy of another job
C20_CanonicalCopies ==
    /\ [][C20_Step]_vars
    /\ [](\A i \in ScanJobs :
            /\ jobs[i].original_relpath[1] = jobs[i].hash
            /\ jobs[i].original_fullpath =
                  [project_id |-> jobs[i].project_id, name |-> jobs[i].original_relpath]
            /\ \E o \in originals :
                  /\ o.project_id = jobs[i].project_id
                  /\ o.name = jobs[i].original_relpath
                  /\ <<"sha256", o.data>> = jobs[i].hash)
    /\ [](\A i \in ScanJobs, j \in ScanJobs :
            (i # j /\ jobs[i].project_id = jobs[j].project_id)
            => jobs[i].original_fullpath # jobs[j].original_fullpath)

\* one project has two jobs made from files of the same name and of
\* different content, each with its own canonical copy
C20_Witness ==
    \E i \in ScanJobs, j \in ScanJobs :
        /\ i # j
        /\ jobs[i].project_id = jobs[j].project_id
        /\ jobs[i].original_relpath[2] = jobs[j].original_relpath[2]
        /\ jobs[i].hash # jobs[j].hash
        /\ Cardinality({o \in originals : o.project_id = jobs[i].project_id}) >= 2

\* C21: when scan_project returns, every non-hidden supported file that can
\* be reached from the input root in the tree as it then stands has a job of
\* the project, the files that archives exposed during the scan included
C21_ReturnedScanIsComplete ==
    \A p \in Procs :
        (run[p].op = "scan" /\ run[p].pc = "done") => ScanComplete(run[p])

\* a step of a scan appends the directory of its entry to the queue exactly
\* when it counts an extraction, and it does so only for an archive whose
\* (project, path, digest) it records now
C22_Step ==
    \A p \in Procs :
        (run[p].op = "scan" /\ run'[p].op = "scan" /\ run'[p] # run[p]
         /\ run'[p].pc # "raised")
        => LET r == run[p]
               requeued == /\ r.pc = "entries"
                           /\ run'[p].queue = Append(r.queue, Parent(run'[p].entry))
               counted == run'[p].summary.zip_extracted # r.summary.zip_extracted
           IN  /\ requeued <=> counted
               /\ counted => /\ run'[p].summary.zip_extracted = r.summary.zip_extracted + 1
                             /\ IsArchive(fs, run'[p].entry)
                             /\ ZipKey(fs, r.project.id, run'[p].entry)
                                   \in zip_extractions' \ zip_extractions

\* C22: a scan that was called returns: the queue runs empty, because a
\* directory is enqueued again only for an archive extracted and recorded
\* now, once for every unit of zip_extracted
C22_ScanTerminates ==
    /\ \A p \in Procs :
          (run[p].op = "scan") ~> (run[p].op = "scan" /\ run[p].pc \in {"done", "raised"})
    /\ [][C22_Step]_vars
    /\ [](\A p \in Procs :
            (run[p].op = "scan" /\ run[p].pc = "done")
            => /\ run[p].queue = << >> /\ run[p].entries = {}
               /\ run[p].summary.zip_extracted
                     = Cardinality(zip_extractions \ run[p].recs0))

\* a scan returned after it extracted an archive and the archive inside it
C22_Witness ==
    \E p \in Procs :
        /\ run[p].op = "scan" /\ run[p].pc = "done"
        /\ run[p].queue = << >>
        /\ run[p].summary.zip_extracted >= 2

\* a step of a scan over a supported file whose digest got its job earlier in
\* this same scan counts it in skipped_existing and not in new_jobs
C23_Step ==
    \A p \in Procs :
        (/\ run[p].op = "scan" /\ run[p].pc = "entries"
         /\ run'[p] # run[p]
         /\ IsSupportedFile(fs, run'[p].entry)
         /\ \E i \in JobsOf(jobs, run[p].project.id,
                            <<"sha256", fs[run'[p].entry].data>>) : i > run[p].jobs0)
        => /\ run'[p].summary.skipped_existing = run[p].summary.skipped_existing + 1
           /\ run'[p].summary.new_jobs = run[p].summary.new_jobs
           /\ jobs' = jobs

\* C23: all through a scan, and so when it returns, new_jobs is the number
\* of job rows the call has added, all of its project, and zip_extracted is
\* the number of extraction records it has added; a file met again after a
\* re-enqueue is counted in skipped_existing
C23_CountersMatchRows ==
    /\ [](\A p \in Procs :
            Scanning(p)
            => LET r == run[p]
               IN  /\ r.summary.new_jobs = Len(jobs) - r.jobs0
                   /\ \A i \in (r.jobs0 + 1)..Len(jobs) :
                         jobs[i].project_id = r.project.id
                   /\ r.summary.zip_extracted
                         = Cardinality(zip_extractions \ r.recs0)
                   /\ \A rec \in zip_extractions \ r.recs0 :
                         rec.project_id = r.project.id)
    /\ [][C23_Step]_vars

\* a first scan returned that extracted an archive, made jobs, and met a
\* file again in the re-enqueued directory
C23_Witness ==
    \E p \in Procs :
        /\ run[p].op = "scan" /\ run[p].pc = "done"
        /\ run[p].jobs0 = 0
        /\ run[p].summary.zip_extracted >= 1
        /\ run[p].summary.new_jobs >= 2
        /\ run[p].summary.skipped_existing >= 1

StarveJobIds == 1..(MaxInserts + 2)

\* job i is a pending job of a project that exists
PendingResolvable(i) ==
    i \in JobIds /\ jobs[i].status = "pending" /\ Resolvable(jobs[i].project_id)

LeftPending(i) == i \in JobIds /\ jobs[i].status # "pending"

\* C24: with process_jobs called again and again with a fixed limit >= 1,
\* every pending job whose project exists is eventually claimed and leaves
\* pending, whatever jobs are ahead of it
C24_NoStarvation ==
    \A i \in StarveJobIds : PendingResolvable(i) ~> LeftPending(i)

\* a step of a scan of project P leaves every existing job row as it is and
\* adds rows and extraction records of P only; a file whose digest has a job
\* in another project only goes on to its own insertion; a step of
\* process_jobs(project_id = P) leaves the rows of every other project alone
C25_Step ==
    \A p \in Procs :
        /\ (run[p].op = "scan" /\ run[p].pc \in {"loop", "entries", "insert"}
            /\ run'[p] # run[p])
           => LET P == run[p].project.id
              IN  /\ Len(jobs') >= Len(jobs)
                  /\ \A i \in 1..Len(jobs) : jobs'[i] = jobs[i]
                  /\ \A i \in (Len(jobs) + 1)..Len(jobs') : jobs'[i].project_id = P
                  /\ zip_extractions \subseteq zip_extractions'
                  /\ \A rec \in zip_extractions' \ zip_extractions : rec.project_id = P
                  /\ (/\ run[p].pc = "entries"
                      /\ IsSupportedFile(fs, run'[p].entry)
                      /\ JobsOf(jobs, P, <<"sha256", fs[run'[p].entry].data>>) = {})
                     => /\ run'[p].pc = "insert"
                        /\ run'[p].file_hash = <<"sha256", fs[run'[p].entry].data>>
        /\ (run[p].op = "work" /\ run[p].project_id # AllProjects
            /\ run'[p] # run[p])
           => /\ Len(jobs') = Len(jobs)
              /\ \A i \in 1..Len(jobs) :
                    (jobs[i].project_id # run[p].project_id) => jobs'[i] = jobs[i]
              /\ zip_extractions' = zip_extractions

\* C25: what is scoped to a project changes nothing of another project, and
\* content that has a job under one project still gets its job under another
C25_ProjectsAreIsolated == [][C25_Step]_vars

\* the same content has a job under two projects; process_jobs for one of
\* them has handled its job and left the other project's job pending
C25_Witness ==
    \E p \in Procs :
        /\ run[p].op = "work" /\ run[p].pc = "done"
        /\ run[p].project_id # AllProjects
        /\ \E i \in ScanJobs, j \in ScanJobs :
              /\ jobs[i].project_id = run[p].project_id
              /\ jobs[j].project_id # run[p].project_id
              /\ jobs[i].hash = jobs[j].hash
              /\ jobs[i].status # "pending"
              /\ jobs[j].status = "pending"
              /\ j < i

\* the ids of the jobs the run of p has moved to in_progress so far
ClaimedBy(p) ==
    IF run[p].op # "work" THEN {}
    ELSE {run[p].jobs[k].id :
            k \in {n \in 1..Len(run[p].jobs) :
                      /\ run[p].jobs[n].id \notin run[p].skipped
                      /\ \/ n < run[p].idx
                         \/ n = run[p].idx /\ run[p].pc = "ocr"}}

\* C26: when two process_jobs runs interleave no job is claimed by both:
\* no job is moved to in_progress, and handed to the OCR call, a second time
C26_NoJobClaimedByBoth ==
    /\ \A p \in Procs, q \in Procs :
          (p # q) => ClaimedBy(p) \cap ClaimedBy(q) = {}
    /\ \A i \in JobIds : i \notin claimedTwice

====
